---- MODULE Spec2Model ----
(***************************************************************************)
(* A model of backend/codebase.py: the codebase scanner behind the /scan   *)
(* and /history endpoints.  Strings of the program (paths, file contents,  *)
(* import targets) are sequences of one-character strings, so that prefix, *)
(* suffix, substring and regular-expression matching are computed as the   *)
(* Python code computes them.                                              *)
(***************************************************************************)
EXTENDS Integers, Sequences, FiniteSets, TLC

\* Optional[T]: None, or Some(v)
None == <<>>
Some(v) == <<v>>

(***************************************************************************)
(* str methods                                                             *)
(***************************************************************************)
UpperChars == <<"A","B","C","D","E","F","G","H","I","J","K","L","M",
                "N","O","P","Q","R","S","T","U","V","W","X","Y","Z">>
LowerChars == <<"a","b","c","d","e","f","g","h","i","j","k","l","m",
                "n","o","p","q","r","s","t","u","v","w","x","y","z">>
DigitChars == <<"0","1","2","3","4","5","6","7","8","9">>

Range(s) == {s[i] : i \in DOMAIN s}

Min(S) == CHOOSE x \in S : \A y \in S : x <= y
Max(S) == CHOOSE x \in S : \A y \in S : y <= x

LowerChar(c) ==
    IF c \in Range(UpperChars)
    THEN LowerChars[CHOOSE i \in DOMAIN UpperChars : UpperChars[i] = c]
    ELSE c

UpperChar(c) ==
    IF c \in Range(LowerChars)
    THEN UpperChars[CHOOSE i \in DOMAIN LowerChars : LowerChars[i] = c]
    ELSE c

\* str.lower()
Lower(s) == [i \in DOMAIN s |-> LowerChar(s[i])]

\* str.upper()
Upper(s) == [i \in DOMAIN s |-> UpperChar(s[i])]

\* s[n:] for n >= 0
From(s, n) == IF n >= Len(s) THEN <<>> ELSE SubSeq(s, n + 1, Len(s))

\* s[:n] for n >= 0
Upto(s, n) == IF n >= Len(s) THEN s ELSE SubSeq(s, 1, n)

\* whether p occurs in s at the 1-based position i
MatchAt(s, i, p) ==
    /\ i >= 1
    /\ i + Len(p) - 1 <= Len(s)
    /\ \A k \in 1..Len(p) : s[i + k - 1] = p[k]

\* s.startswith(p)
StartsWith(s, p) == MatchAt(s, 1, p)

\* s.endswith(p)
EndsWith(s, p) == MatchAt(s, Len(s) - Len(p) + 1, p)

\* p in s
Contains(s, p) == \E i \in 1..(Len(s) + 1) : MatchAt(s, i, p)

\* s.rfind(c) + 1 for a single character c: the 1-based position of the last c, or 0
RFind(s, c) ==
    LET hits == {i \in DOMAIN s : s[i] = c}
    IN  IF hits = {} THEN 0 ELSE CHOOSE i \in hits : \A j \in hits : j <= i

\* s.lstrip(c)
LStrip(s, c) ==
    From(s, Max({k \in 0..Len(s) : \A x \in 1..k : s[x] = c}))

\* s.rstrip(c)
RStrip(s, c) ==
    Upto(s, Len(s) - Max({k \in 0..Len(s) : \A x \in (Len(s) - k + 1)..Len(s) : s[x] = c}))

\* s.split(c)
RECURSIVE Split(_, _)
Split(s, c) ==
    LET hits == {i \in DOMAIN s : s[i] = c}
    IN  IF hits = {} THEN <<s>>
        ELSE LET i == CHOOSE k \in hits : \A j \in hits : k <= j
             IN  <<SubSeq(s, 1, i - 1)>> \o Split(From(s, i), c)

\* c.join(parts)
RECURSIVE JoinWith(_, _)
JoinWith(parts, c) ==
    IF parts = <<>> THEN <<>>
    ELSE IF Len(parts) = 1 THEN parts[1]
    ELSE parts[1] \o <<c>> \o JoinWith(Tail(parts), c)

(***************************************************************************)
(* os.path (posixpath)                                                     *)
(***************************************************************************)
\* os.path.basename(p)
Basename(p) == From(p, RFind(p, "/"))

\* os.path.dirname(p)
Dirname(p) ==
    LET head == Upto(p, RFind(p, "/"))
    IN  IF head # <<>> /\ \E i \in DOMAIN head : head[i] # "/"
        THEN RStrip(head, "/") ELSE head

\* os.path.join(a, b)
PathJoin(a, b) ==
    IF StartsWith(b, <<"/">>) THEN b
    ELSE IF a = <<>> \/ EndsWith(a, <<"/">>) THEN a \o b
    ELSE a \o <<"/">> \o b

\* the loop of posixpath.normpath over the components
RECURSIVE NormComps(_, _, _)
NormComps(comps, new_comps, initial_slashes) ==
    IF comps = <<>> THEN new_comps
    ELSE LET comp == Head(comps)
         IN  IF comp = <<>> \/ comp = <<".">>
             THEN NormComps(Tail(comps), new_comps, initial_slashes)
             ELSE IF \/ comp # <<".", ".">>
                     \/ (initial_slashes = 0 /\ new_comps = <<>>)
                     \/ (new_comps # <<>> /\ new_comps[Len(new_comps)] = <<".", ".">>)
             THEN NormComps(Tail(comps), Append(new_comps, comp), initial_slashes)
             ELSE IF new_comps # <<>>
             THEN NormComps(Tail(comps), SubSeq(new_comps, 1, Len(new_comps) - 1),
                            initial_slashes)
             ELSE NormComps(Tail(comps), new_comps, initial_slashes)

\* os.path.normpath(path)
Normpath(path) ==
    IF path = <<>> THEN <<".">>
    ELSE LET initial_slashes ==
                 IF ~StartsWith(path, <<"/">>) THEN 0
                 ELSE IF StartsWith(path, <<"/", "/">>) /\ ~StartsWith(path, <<"/", "/", "/">>)
                      THEN 2 ELSE 1
             joined == JoinWith(NormComps(Split(path, "/"), <<>>, initial_slashes), "/")
             out == [i \in 1..initial_slashes |-> "/"] \o joined
         IN  IF out = <<>> THEN <<".">> ELSE out

\* os.path.splitext(p)[1]
SplitextExt(p) ==
    LET sepIndex == RFind(p, "/")
        dotIndex == RFind(p, ".")
    IN  IF dotIndex > sepIndex
           /\ \E k \in (sepIndex + 1)..(dotIndex - 1) : p[k] # "."
        THEN From(p, dotIndex - 1)
        ELSE <<>>

(***************************************************************************)
(* get_file_extension, get_language                                        *)
(***************************************************************************)
get_file_extension(file_path) ==
    LET ext == SplitextExt(file_path)
    IN  IF ext # <<>> THEN From(Lower(ext), 1) ELSE <<>>

language_map ==
    { <<<<"p","y">>, <<"P","y","t","h","o","n">>>>,
      <<<<"j","s">>, <<"J","a","v","a","S","c","r","i","p","t">>>>,
      <<<<"j","s","x">>, <<"J","a","v","a","S","c","r","i","p","t"," ","(","R","e","a","c","t",")">>>>,
      <<<<"t","s">>, <<"T","y","p","e","S","c","r","i","p","t">>>>,
      <<<<"t","s","x">>, <<"T","y","p","e","S","c","r","i","p","t"," ","(","R","e","a","c","t",")">>>>,
      <<<<"h","t","m","l">>, <<"H","T","M","L">>>>,
      <<<<"c","s","s">>, <<"C","S","S">>>>,
      <<<<"j","s","o","n">>, <<"J","S","O","N">>>>,
      <<<<"m","d">>, <<"M","a","r","k","d","o","w","n">>>>,
      <<<<"y","m","l">>, <<"Y","A","M","L">>>>,
      <<<<"y","a","m","l">>, <<"Y","A","M","L">>>>,
      <<<<"t","x","t">>, <<"T","e","x","t">>>> }

get_language(file_path) ==
    LET ext == get_file_extension(file_path)
        known == {e \in language_map : e[1] = ext}
    IN  IF known # {} THEN (CHOOSE e \in known : TRUE)[2]
        ELSE IF ext # <<>> THEN Upper(ext)
        ELSE <<"U","n","k","n","o","w","n">>

(***************************************************************************)
(* re: the five patterns of extract_imports, matched as re.findall matches *)
(* them (leftmost match, greedy and lazy quantifiers with backtracking,    *)
(* `.` not matching a newline, no word boundary before a keyword)          *)
(***************************************************************************)
\* \s
IsSpace(c) == c \in {" ", "\t", "\n", "\r", "\f"}

\* [\w\.]
IsModuleChar(c) ==
    c \in Range(LowerChars) \cup Range(UpperChars) \cup Range(DigitChars) \cup {"_", "."}

\* ['"]
IsQuote(c) == c \in {"'", "\""}

\* the length of the longest run of \s starting at position i
SpaceRun(s, i) ==
    Max({k \in 0..(IF i > Len(s) THEN 0 ELSE Len(s) - i + 1) :
            \A x \in i..(i + k - 1) : IsSpace(s[x])})

\* the length of the longest run of [\w\.] starting at position i
ModuleRun(s, i) ==
    Max({k \in 0..(IF i > Len(s) THEN 0 ELSE Len(s) - i + 1) :
            \A x \in i..(i + k - 1) : IsModuleChar(s[x])})

NoMatch == [ok |-> FALSE, end |-> 0, group |-> <<>>]
Matched(end, group) == [ok |-> TRUE, end |-> end, group |-> group]

KwImport == <<"i","m","p","o","r","t">>
KwFrom == <<"f","r","o","m">>
KwRequire == <<"r","e","q","u","i","r","e">>

\* r'import\s+([\w\.]+)' at position i
MatchPyImport(s, i) ==
    IF ~MatchAt(s, i, KwImport) THEN NoMatch
    ELSE LET k == SpaceRun(s, i + 6)
             m == ModuleRun(s, i + 6 + k)
         IN  IF k >= 1 /\ m >= 1
             THEN Matched(i + 6 + k + m, SubSeq(s, i + 6 + k, i + 6 + k + m - 1))
             ELSE NoMatch

\* r'from\s+([\w\.]+)\s+import' at position i
MatchPyFrom(s, i) ==
    IF ~MatchAt(s, i, KwFrom) THEN NoMatch
    ELSE LET k == SpaceRun(s, i + 4)
             m == ModuleRun(s, i + 4 + k)
             j == SpaceRun(s, i + 4 + k + m)
             e == i + 4 + k + m + j
         IN  IF k >= 1 /\ m >= 1 /\ j >= 1 /\ MatchAt(s, e, KwImport)
             THEN Matched(e + 6, SubSeq(s, i + 4 + k, i + 4 + k + m - 1))
             ELSE NoMatch

\* ['"](.*?)['"] with the opening quote at q: the positions r of a closing quote,
\* all of s[q+1..r-1] being matched by `.`
ClosingQuotes(s, q) ==
    {r \in (q + 1)..Len(s) :
        IsQuote(s[r]) /\ \A x \in (q + 1)..(r - 1) : s[x] # "\n"}

\* ['"](.*?)['"](;)? with the opening quote at q: the lazy group ends at the first quote
QuotedAt(s, q) ==
    IF q > Len(s) \/ ~IsQuote(s[q]) \/ ClosingQuotes(s, q) = {} THEN NoMatch
    ELSE LET r == Min(ClosingQuotes(s, q))
             e == IF r + 1 <= Len(s) /\ s[r + 1] = ";" THEN r + 2 ELSE r + 1
         IN  Matched(e, SubSeq(s, q + 1, r - 1))

\* \s+from\s+['"](.*?)['"](;)? at position p
FromTailAt(s, p) ==
    LET j == SpaceRun(s, p)
        j2 == SpaceRun(s, p + j + 4)
    IN  IF j >= 1 /\ MatchAt(s, p + j, KwFrom) /\ j2 >= 1
        THEN QuotedAt(s, p + j + 4 + j2)
        ELSE NoMatch

\* r'import\s+.*?\s+from\s+[\'"](.*?)[\'"](;)?' at position i: \s+ greedy (k from
\* the longest run down to 1), .*? lazy (the nearest p the tail matches at)
MatchJsModule(s, i) ==
    IF ~MatchAt(s, i, KwImport) THEN NoMatch
    ELSE LET kmax == SpaceRun(s, i + 6)
             Tails(k) == {p \in (i + 6 + k)..Len(s) :
                             /\ \A x \in (i + 6 + k)..(p - 1) : s[x] # "\n"
                             /\ FromTailAt(s, p).ok}
             ks == {k \in 1..kmax : Tails(k) # {}}
         IN  IF ks = {} THEN NoMatch
             ELSE FromTailAt(s, Min(Tails(Max(ks))))

\* r'import\s+[\'"](.*?)[\'"](;)?' at position i
MatchJsDirect(s, i) ==
    IF ~MatchAt(s, i, KwImport) THEN NoMatch
    ELSE LET k == SpaceRun(s, i + 6)
         IN  IF k >= 1 THEN QuotedAt(s, i + 6 + k) ELSE NoMatch

\* r'require\s*?\(\s*[\'"](.*?)[\'"](;)?\)' at position i
MatchJsRequire(s, i) ==
    IF ~MatchAt(s, i, KwRequire) THEN NoMatch
    ELSE LET k == SpaceRun(s, i + 7)
             o == i + 7 + k
             q == o + 1 + SpaceRun(s, o + 1)
             Closed(r) == \/ MatchAt(s, r + 1, <<";", ")">>)
                          \/ MatchAt(s, r + 1, <<")">>)
             rs == IF q > Len(s) \/ ~IsQuote(s[q]) THEN {}
                   ELSE {r \in ClosingQuotes(s, q) : Closed(r)}
         IN  IF ~MatchAt(s, o, <<"(">>) \/ rs = {} THEN NoMatch
             ELSE LET r == Min(rs)
                  IN  Matched(IF MatchAt(s, r + 1, <<";", ")">>) THEN r + 3 ELSE r + 2,
                              SubSeq(s, q + 1, r - 1))

MatchPattern(pattern, s, i) ==
    CASE pattern = "js_module" -> MatchJsModule(s, i)
      [] pattern = "js_direct" -> MatchJsDirect(s, i)
      [] pattern = "js_require" -> MatchJsRequire(s, i)
      [] pattern = "py_import" -> MatchPyImport(s, i)
      [] pattern = "py_from" -> MatchPyFrom(s, i)

\* re.findall(pattern, content)[..][0]: the first group of every match, the search
\* resuming where the previous match ended
RECURSIVE FindAllFrom(_, _, _)
FindAllFrom(pattern, s, starts) ==
    IF starts = {} THEN <<>>
    ELSE LET m == MatchPattern(pattern, s, Min(starts))
         IN  <<m.group>> \o FindAllFrom(pattern, s, {i \in starts : i >= m.end})

FindAll(pattern, s) ==
    FindAllFrom(pattern, s, {i \in DOMAIN s : MatchPattern(pattern, s, i).ok})

(***************************************************************************)
(* extract_imports                                                         *)
(***************************************************************************)
ImportInfo(path, type) == [path |-> path, type |-> type]

JsExtensions == {<<"j","s">>, <<"j","s","x">>, <<"t","s">>, <<"t","s","x">>}
PyExtension == <<"p","y">>

\* the patterns of each language with their import type, in the order of the lists
JsPatterns == <<<<"js_module", "module">>, <<"js_direct", "direct">>,
                <<"js_require", "require">>>>
PyPatterns == <<<<"py_import", "module">>, <<"py_from", "from">>>>

UiSrcPrefix == <<"/","u","i","/","s","r","c","/">>
ApiPrefix == <<"/","s","r","c","/","a","p","p","/","a","p","i","s","/">>
JsKnownModules == {<<"r","e","a","c","t">>, <<"r","e","a","c","t","-","d","o","m">>, <<"r","e","a","c","t","-","r","o","u","t","e","r","-","d","o","m">>, <<"a","p","p">>, <<"b","r","a","i","n">>}
PyKnownModules == {<<"d","a","t","a","b","u","t","t","o","n">>, <<"f","a","s","t","a","p","i">>, <<"p","y","d","a","n","t","i","c">>}
StrBrain == <<"b","r","a","i","n">>
StrApp == <<"a","p","p">>

\* extract_imports, lines 104-124: an import path starting with '.' or '/'
JsRelativeImport(file_path, import_path, import_type, root_path) ==
    LET dirname == Dirname(file_path)
        source_dir == Dirname(PathJoin(root_path, LStrip(file_path, "/")))
        full_path ==
            IF StartsWith(import_path, <<".","/">>)
            THEN Normpath(PathJoin(source_dir, From(import_path, 2)))
            ELSE IF StartsWith(import_path, <<".",".","/">>)
            THEN Normpath(PathJoin(source_dir, import_path))
            ELSE Normpath(PathJoin(dirname, import_path))
    IN  IF StartsWith(import_path, <<".">>)
        THEN IF StartsWith(full_path, root_path)
             THEN ImportInfo(From(full_path, Len(root_path)), import_type)
             ELSE ImportInfo(import_path, import_type)
        ELSE ImportInfo(import_path, import_type)

\* extract_imports, lines 85-124: the ImportInfos (none or one) of one JS/TS match
JsImport(file_path, import_path, import_type, root_path) ==
    IF import_path = <<>> THEN <<>>
    ELSE IF StartsWith(import_path, <<"c","o","m","p","o","n","e","n","t","s","/">>)
    THEN <<ImportInfo(UiSrcPrefix \o import_path, import_type)>>
    ELSE IF StartsWith(import_path, <<"u","t","i","l","s","/">>)
    THEN <<ImportInfo(UiSrcPrefix \o import_path, import_type)>>
    ELSE IF StartsWith(import_path, <<"@","/">>)
    THEN <<ImportInfo(UiSrcPrefix \o From(import_path, 2), import_type)>>
    ELSE IF ~(StartsWith(import_path, <<".">>) \/ StartsWith(import_path, <<"/">>))
    THEN IF import_path \in JsKnownModules
         THEN <<ImportInfo(import_path, "external")>>
         ELSE <<ImportInfo(import_path, import_type)>>
    ELSE <<JsRelativeImport(file_path, import_path, import_type, root_path)>>

\* extract_imports, lines 138-151: the ImportInfos (none or one) of one Python match
PyImport(match, import_type) ==
    IF match = <<>> THEN <<>>
    ELSE IF match = StrApp \/ StartsWith(match, <<"a","p","p",".">>)
    THEN LET module_path == IF StartsWith(match, <<"a","p","p",".">>) THEN From(match, 4) ELSE <<>>
         IN  IF StartsWith(module_path, <<"a","p","i","s",".">>)
             THEN <<ImportInfo(ApiPrefix \o From(module_path, 5), import_type)>>
             ELSE <<ImportInfo(match, "internal")>>
    ELSE IF match \in PyKnownModules
    THEN <<ImportInfo(match, "external")>>
    ELSE <<ImportInfo(match, import_type)>>

\* the inner loop over the matches of one pattern
RECURSIVE JsMatches(_, _, _, _)
JsMatches(file_path, matches, import_type, root_path) ==
    IF matches = <<>> THEN <<>>
    ELSE JsImport(file_path, Head(matches), import_type, root_path)
         \o JsMatches(file_path, Tail(matches), import_type, root_path)

RECURSIVE PyMatches(_, _)
PyMatches(matches, import_type) ==
    IF matches = <<>> THEN <<>>
    ELSE PyImport(Head(matches), import_type) \o PyMatches(Tail(matches), import_type)

\* the outer loop over the patterns of a language
RECURSIVE JsPatternLoop(_, _, _, _)
JsPatternLoop(patterns, file_path, content, root_path) ==
    IF patterns = <<>> THEN <<>>
    ELSE JsMatches(file_path, FindAll(Head(patterns)[1], content), Head(patterns)[2], root_path)
         \o JsPatternLoop(Tail(patterns), file_path, content, root_path)

RECURSIVE PyPatternLoop(_, _)
PyPatternLoop(patterns, content) ==
    IF patterns = <<>> THEN <<>>
    ELSE PyMatches(FindAll(Head(patterns)[1], content), Head(patterns)[2])
         \o PyPatternLoop(Tail(patterns), content)

extract_imports(file_path, content, root_path) ==
    LET ext == get_file_extension(file_path)
    IN  IF ext \in JsExtensions THEN JsPatternLoop(JsPatterns, file_path, content, root_path)
        ELSE IF ext = PyExtension THEN PyPatternLoop(PyPatterns, content)
        ELSE <<>>

(***************************************************************************)
(* The disk, as os.path.exists, os.path.isdir, os.listdir, os.path.getsize, *)
(* os.path.getmtime and open() see it.  An entry is a regular file, a      *)
(* directory with its entries in os.listdir order, or a dangling symbolic  *)
(* link ("broken": listed by its directory, but os.path.exists is False).  *)
(* An entry that is not readable raises PermissionError from os.listdir (a *)
(* directory) or from open (a file).                                       *)
(***************************************************************************)
FsFile(name, content, mtime) ==
    [name |-> name, kind |-> "file", content |-> content, mtime |-> mtime,
     readable |-> TRUE, entries |-> <<>>]
FsDir(name, entries, mtime) ==
    [name |-> name, kind |-> "dir", content |-> <<>>, mtime |-> mtime,
     readable |-> TRUE, entries |-> entries]
FsBroken(name) ==
    [name |-> name, kind |-> "broken", content |-> <<>>, mtime |-> 0,
     readable |-> FALSE, entries |-> <<>>]
FsUnreadable(entry) == [entry EXCEPT !.readable = FALSE]
FsMissing == FsBroken(<<>>)

RECURSIVE FsLookup(_, _)
FsLookup(entry, comps) ==
    IF comps = <<>> THEN entry
    ELSE IF Head(comps) = <<>> THEN FsLookup(entry, Tail(comps))
    ELSE IF entry.kind # "dir" THEN FsMissing
    ELSE LET hits == {i \in DOMAIN entry.entries : entry.entries[i].name = Head(comps)}
         IN  IF hits = {} THEN FsMissing
             ELSE FsLookup(entry.entries[Min(hits)], Tail(comps))

\* the entry a path names on the disk fs (fs is the directory "/")
FsEntry(fs, full_path) == FsLookup(fs, Split(full_path, "/"))

\* os.path.exists, os.path.isdir, os.path.getsize, os.path.getmtime
PathExists(fs, full_path) == FsEntry(fs, full_path).kind # "broken"
PathIsDir(fs, full_path) == FsEntry(fs, full_path).kind = "dir"
PathGetSize(fs, full_path) == Len(FsEntry(fs, full_path).content)
PathGetMtime(fs, full_path) == FsEntry(fs, full_path).mtime

\* os.listdir(full_path)
ListDir(fs, full_path) ==
    LET entries == FsEntry(fs, full_path).entries
    IN  [i \in DOMAIN entries |-> entries[i].name]

(***************************************************************************)
(* FileNode, and the dict all_files_map (keys in insertion order)          *)
(***************************************************************************)
FileNode(name, path, type, size, last_modified, children, imports, language) ==
    [name |-> name, path |-> path, type |-> type, size |-> size,
     last_modified |-> last_modified, children |-> children,
     imports |-> imports, language |-> language]

\* all_files_map[key] = node
DictPut(map, key, node) ==
    LET at == {i \in DOMAIN map : map[i][1] = key}
    IN  IF at # {}
        THEN SubSeq(map, 1, Min(at) - 1) \o <<<<key, node>>>>
             \o SubSeq(map, Min(at) + 1, Len(map))
        ELSE Append(map, <<key, node>>)

DictKeys(map) == {map[i][1] : i \in DOMAIN map}

\* map.get(key, default)
DictGet(map, key, default) ==
    IF key \in DictKeys(map)
    THEN map[CHOOSE i \in DOMAIN map : map[i][1] = key][2]
    ELSE default

(***************************************************************************)
(* scan_directory                                                          *)
(***************************************************************************)
max_items == 100
default_max_depth == 5

\* excluded_dirs without node_modules
excluded_dirs_NoNodeModules ==
    { <<".","g","i","t">>, <<"_","_","p","y","c","a","c","h","e","_","_">>, <<"v","e","n","v">>, <<".","v","e","n","v">>, <<"d","i","s","t">>, <<"b","u","i","l","d">>, <<".","n","e","x","t">>, <<".","i","d","e","a">> }

excluded_dirs == {<<".","g","i","t">>, <<"n","o","d","e","_","m","o","d","u","l","e","s">>, <<"_","_","p","y","c","a","c","h","e","_","_">>, <<"v","e","n","v">>, <<".","v","e","n","v">>,
                  <<"d","i","s","t">>, <<"b","u","i","l","d">>, <<".","n","e","x","t">>, <<".","i","d","e","a">>}

SourceExtensions == JsExtensions \cup {PyExtension}

\* lines 168-175: the name of the node
NodeName(base_path, current_path) ==
    LET name == IF Basename(current_path) # <<>> THEN Basename(current_path)
                ELSE Basename(base_path)
    IN  IF name = <<"_","_","i","n","i","t","_","_",".","p","y">> /\ Contains(current_path, <<"/","a","p","i","s","/">>)
        THEN Basename(Dirname(current_path)) \o <<".","p","y">>
        ELSE name

\* current_path or "/"
PathOrRoot(current_path) == IF current_path # <<>> THEN current_path ELSE <<"/">>

\* lines 179-187: the placeholder of an excluded name
ExcludedNode(fs, base_path, current_path) ==
    FileNode(NodeName(base_path, current_path), PathOrRoot(current_path), "directory", 0,
             Some(PathGetMtime(fs, PathJoin(base_path, current_path))), Some(<<>>),
             None, None)

\* lines 226-257: the node of a file
\* lines 233-242: the imports of a file (open() raising: none)
FileImports(base_path, current_path, full_path, entry) ==
    IF get_file_extension(full_path) \in SourceExtensions /\ entry.readable
    THEN extract_imports(current_path, entry.content, base_path)
    ELSE <<>>

FileNodeOf(fs, base_path, current_path, full_path) ==
    FileNode(NodeName(base_path, current_path), current_path, "file",
             PathGetSize(fs, full_path), Some(PathGetMtime(fs, full_path)), None,
             Some(FileImports(base_path, current_path, full_path, FsEntry(fs, full_path))),
             Some(get_language(full_path)))

ScanFile(fs, base_path, current_path) ==
    FileNodeOf(fs, base_path, current_path, PathJoin(base_path, current_path))

\* Truncate without the cap
Truncate_NoCap(items) == items

\* lines 198-199: items[:max_items] when there are more
Truncate(items) == IF Len(items) > max_items THEN SubSeq(items, 1, max_items) ELSE items

\* the result of a call, and the dict it leaves
Returned(node, map) == [node |-> node, map |-> map]

\* A loop over the positions lo..hi of a list is evaluated as the loop over the
\* first half of the positions followed by the loop over the second half: the
\* same iterations in the same order, in an evaluation of logarithmic depth.
\* Evaluated(v) is TRUE for every v: it makes the first half's result a value
\* before the second half starts from it.
Mid(lo, hi) == (lo + hi) \div 2
Evaluated(v) == v = v

\* lines 204-211: what one item's result r adds to acc = [children, total_size, map]
AddChild(acc, r) ==
    IF r.node = None
    THEN [acc EXCEPT !.map = r.map]
    ELSE [children |-> Append(acc.children, r.node[1]),
          total_size |-> acc.total_size + r.node[1].size,
          map |-> IF r.node[1].type = "file"
                  THEN DictPut(r.map, r.node[1].path, r.node[1])
                  ELSE r.map]

\* lines 216-223: the node of a directory whose loop ended with acc
DirectoryResult(fs, base_path, current_path, acc) ==
    Returned(Some(FileNode(NodeName(base_path, current_path), PathOrRoot(current_path),
                           "directory", acc.total_size,
                           Some(PathGetMtime(fs, PathJoin(base_path, current_path))),
                           Some(acc.children), None, None)),
             acc.map)

\* lines 244-257: a file's node, returned and registered
FileResult(current_path, file_node, all_files_map) ==
    Returned(Some(file_node), DictPut(all_files_map, current_path, file_node))

\* lines 201-211, for the items at positions lo..hi; acc is
\* [children, total_size, map] so far
RECURSIVE ScanItems(_, _, _, _, _, _, _, _)
RECURSIVE ScanItemsAfter(_, _, _, _, _, _, _, _)
RECURSIVE scan_directory(_, _, _, _, _)
\* ScanItems passing max_depth on to the items as it is
ScanItems_SameDepth(fs, base_path, current_path, max_depth, items, lo, hi, acc) ==
    IF lo > hi THEN acc
    ELSE IF lo < hi
    THEN ScanItemsAfter(fs, base_path, current_path, max_depth, items, Mid(lo, hi) + 1, hi,
             ScanItems(fs, base_path, current_path, max_depth, items, lo, Mid(lo, hi), acc))
    ELSE AddChild(acc, scan_directory(fs, base_path, PathJoin(current_path, items[lo]),
                                      max_depth, acc.map))

ScanItems(fs, base_path, current_path, max_depth, items, lo, hi, acc) ==
    IF lo > hi THEN acc
    ELSE IF lo < hi
    THEN ScanItemsAfter(fs, base_path, current_path, max_depth, items, Mid(lo, hi) + 1, hi,
             ScanItems(fs, base_path, current_path, max_depth, items, lo, Mid(lo, hi), acc))
    ELSE AddChild(acc, scan_directory(fs, base_path, PathJoin(current_path, items[lo]),
                                      max_depth - 1, acc.map))

ScanItemsAfter(fs, base_path, current_path, max_depth, items, lo, hi, first) ==
    IF Evaluated(first)
    THEN ScanItems(fs, base_path, current_path, max_depth, items, lo, hi, first)
    ELSE first

\* lines 195-199: the items of the loop (os.listdir raising PermissionError: none)
ItemsOf(fs, full_path) ==
    IF FsEntry(fs, full_path).readable THEN Truncate(ListDir(fs, full_path)) ELSE <<>>

scan_directory(fs, base_path, current_path, max_depth, all_files_map) ==
    IF max_depth <= 0 THEN Returned(None, all_files_map)
    ELSE IF ~PathExists(fs, PathJoin(base_path, current_path))
    THEN Returned(None, all_files_map)
    ELSE IF NodeName(base_path, current_path) \in excluded_dirs
    THEN Returned(Some(ExcludedNode(fs, base_path, current_path)), all_files_map)
    ELSE IF PathIsDir(fs, PathJoin(base_path, current_path))
    THEN DirectoryResult(fs, base_path, current_path,
             ScanItems(fs, base_path, current_path, max_depth,
                       ItemsOf(fs, PathJoin(base_path, current_path)), 1,
                       Len(ItemsOf(fs, PathJoin(base_path, current_path))),
                       [children |-> <<>>, total_size |-> 0, map |-> all_files_map]))
    ELSE FileResult(current_path, ScanFile(fs, base_path, current_path), all_files_map)

\* lines 155-203: the number of invocations of scan_directory a call makes, itself
\* included: one, and those of the calls of line 203 for the items of a directory
RECURSIVE Invocations(_, _, _, _)
RECURSIVE ItemInvocations(_, _, _, _, _, _, _)
ItemInvocations(fs, base_path, current_path, max_depth, items, lo, hi) ==
    IF lo > hi THEN 0
    ELSE IF lo < hi
    THEN ItemInvocations(fs, base_path, current_path, max_depth, items, lo, Mid(lo, hi))
         + ItemInvocations(fs, base_path, current_path, max_depth, items, Mid(lo, hi) + 1, hi)
    ELSE Invocations(fs, base_path, PathJoin(current_path, items[lo]), max_depth - 1)

Invocations(fs, base_path, current_path, max_depth) ==
    IF \/ max_depth <= 0
       \/ ~PathExists(fs, PathJoin(base_path, current_path))
       \/ NodeName(base_path, current_path) \in excluded_dirs
       \/ ~PathIsDir(fs, PathJoin(base_path, current_path))
    THEN 1
    ELSE 1 + ItemInvocations(fs, base_path, current_path, max_depth,
                             ItemsOf(fs, PathJoin(base_path, current_path)), 1,
                             Len(ItemsOf(fs, PathJoin(base_path, current_path))))

(***************************************************************************)
(* calculate_stats                                                         *)
(***************************************************************************)
NoExtension == <<"n","o","_","e","x","t","e","n","s","i","o","n">>

EmptyStats ==
    [total_files |-> 0, total_directories |-> 0, total_size_bytes |-> 0,
     file_types |-> <<>>]

\* stats["file_types"][key] = stats["file_types"].get(key, 0) + 1
CountType(file_types, key) == DictPut(file_types, key, DictGet(file_types, key, 0) + 1)

\* TypeKey without the bucket of the files that have no extension
TypeKey_NoBucket(ext) == ext

\* lines 277-286: a file
TypeKey(ext) == IF ext # <<>> THEN ext ELSE NoExtension

CountFile(node, stats) ==
    [total_files |-> stats.total_files + 1,
     total_directories |-> stats.total_directories,
     total_size_bytes |-> stats.total_size_bytes + node.size,
     file_types |-> CountType(stats.file_types, TypeKey(get_file_extension(node.path)))]

\* lines 271-286: traverse(node), and its loop over node.children[lo..hi]
RECURSIVE traverse(_, _)
RECURSIVE TraverseChildren(_, _, _, _)
RECURSIVE TraverseChildrenAfter(_, _, _, _)
TraverseChildren(children, lo, hi, stats) ==
    IF lo > hi THEN stats
    ELSE IF lo < hi
    THEN TraverseChildrenAfter(children, Mid(lo, hi) + 1, hi,
             TraverseChildren(children, lo, Mid(lo, hi), stats))
    ELSE traverse(children[lo], stats)

TraverseChildrenAfter(children, lo, hi, first) ==
    IF Evaluated(first) THEN TraverseChildren(children, lo, hi, first) ELSE first

traverse(node, stats) ==
    IF node.type = "directory"
    THEN IF node.children # None /\ node.children[1] # <<>>
         THEN TraverseChildren(node.children[1], 1, Len(node.children[1]),
                               [stats EXCEPT !.total_directories = @ + 1])
         ELSE [stats EXCEPT !.total_directories = @ + 1]
    ELSE CountFile(node, stats)

calculate_stats(structure) == traverse(structure, EmptyStats)

(***************************************************************************)
(* scan_codebase, step by step                                             *)
(***************************************************************************)
base_path == <<"/","a","p","p">>
placeholder_size == 100

EmptyDirNode(name, path) ==
    FileNode(name, path, "directory", 0, None, Some(<<>>), None, None)

\* lines 302-309
InitialStructure == EmptyDirNode(<<"T","a","s","k","f","l","o","w"," ","A","p","p">>, <<"/">>)

MediaName == <<"M","e","d","i","a"," ","(","P","u","b","l","i","c",")">>
StorageName == <<"I","n","t","e","r","n","a","l"," ","S","t","o","r","a","g","e">>

\* lines 312-361: the category nodes, in the order of the dict
InitialCategories ==
    << EmptyDirNode(<<"P","a","g","e","s">>, <<"/","u","i","/","s","r","c","/","p","a","g","e","s">>),
       EmptyDirNode(<<"U","I"," ","C","o","m","p","o","n","e","n","t","s">>, <<"/","u","i","/","s","r","c","/","c","o","m","p","o","n","e","n","t","s">>),
       EmptyDirNode(<<"U","I"," ","F","i","l","e","s">>, <<"/","u","i","/","s","r","c","/","u","t","i","l","s">>),
       EmptyDirNode(<<"A","P","I","s">>, <<"/","s","r","c","/","a","p","p","/","a","p","i","s">>),
       EmptyDirNode(MediaName, <<"/","s","t","a","t","i","c","-","a","s","s","e","t","s">>),
       EmptyDirNode(StorageName, <<"/","s","t","o","r","a","g","e">>) >>

\* lines 364-369: the scanned path of the category at each position
category_paths ==
    << <<"u","i","/","s","r","c","/","p","a","g","e","s">>, <<"u","i","/","s","r","c","/","c","o","m","p","o","n","e","n","t","s">>, <<"u","i","/","s","r","c","/","u","t","i","l","s">>, <<"s","r","c","/","a","p","p","/","a","p","i","s">> >>

\* lines 375-378: what the category i's node r.node adds to
\* st = [categories, structure, map]
AddScanned(st, i, r) ==
    IF r.node # None
    THEN [categories |-> [st.categories EXCEPT ![i].children = r.node[1].children,
                                               ![i].size = r.node[1].size],
          structure |-> [st.structure EXCEPT !.size = @ + r.node[1].size],
          map |-> r.map]
    ELSE [st EXCEPT !.map = r.map]

\* lines 372-374
ScanCategory(fs, i, st) ==
    IF PathExists(fs, PathJoin(base_path, category_paths[i]))
       /\ PathIsDir(fs, PathJoin(base_path, category_paths[i]))
    THEN AddScanned(st, i, scan_directory(fs, base_path, category_paths[i],
                                          default_max_depth, st.map))
    ELSE st

\* lines 371-378, from the category at position i on
RECURSIVE ScanCategories(_, _, _)
ScanCategories(fs, i, st) ==
    IF i > Len(category_paths) THEN st
    ELSE ScanCategories(fs, i + 1, ScanCategory(fs, i, st))

\* lines 386-392
PlaceholderNode(category_node) ==
    FileNode(<<"(","N","o"," ">> \o category_node.name \o <<")">>, category_node.path, "file",
             placeholder_size, None, None, None, Some(<<"T","e","x","t">>))

\* lines 381-394, from the category at position i on
AddCategory(category_node, structure) ==
    IF category_node.children # None /\ category_node.children[1] # <<>>
    THEN [structure EXCEPT !.children = Some(Append(@[1], category_node))]
    ELSE IF category_node.name \in {MediaName, StorageName}
    THEN [structure EXCEPT !.children =
             Some(Append(@[1], [category_node EXCEPT
                 !.children = Some(<<PlaceholderNode(category_node)>>)]))]
    ELSE structure

RECURSIVE AddCategories(_, _, _)
AddCategories(categories, i, structure) ==
    IF i > Len(categories) THEN structure
    ELSE AddCategories(categories, i + 1, AddCategory(categories[i], structure))

\* the structure and the file map when the loop of lines 371-378 ended with st
Assembled(st) ==
    [structure |-> AddCategories(st.categories, 1, st.structure), map |-> st.map]

\* lines 299-394: the structure and the file map of a scan of the disk fs
BuildStructure(fs) ==
    Assembled(ScanCategories(fs, 1, [categories |-> InitialCategories,
                                     structure |-> InitialStructure, map |-> <<>>]))

\* line 396
StructureIsEmpty(structure) == structure.children = None \/ structure.children[1] = <<>>

CodebaseLink(source, target, type) == [source |-> source, target |-> target, type |-> type]

\* lines 406-421: the links of one file's imports
RECURSIVE ImportLinks(_, _)
\* ImportLink without the skip of external dependencies
ImportLink_KeepsExternal(file_path, import_info) ==
    <<CodebaseLink(file_path, import_info.path, import_info.type)>>

ImportLink(file_path, import_info) ==
    IF import_info.type = "external" THEN <<>>
    ELSE <<CodebaseLink(file_path, import_info.path, import_info.type)>>

ImportLinks(file_path, imports) ==
    IF imports = <<>> THEN <<>>
    ELSE ImportLink(file_path, Head(imports)) \o ImportLinks(file_path, Tail(imports))

\* file_node.imports, None read as no imports
ImportsOf(file_node) == IF file_node.imports = None THEN <<>> ELSE file_node.imports[1]

\* lines 403-421: the first pass, over the map's items at positions lo..hi
RECURSIVE ImportPass(_, _, _)
ImportPass(map, lo, hi) ==
    IF lo > hi THEN <<>>
    ELSE IF lo < hi
    THEN ImportPass(map, lo, Mid(lo, hi)) \o ImportPass(map, Mid(lo, hi) + 1, hi)
    ELSE ImportLinks(map[lo][1], ImportsOf(map[lo][2]))

FrontendSuffixes == {<<".","t","s","x">>, <<".","t","s">>, <<".","j","s","x">>, <<".","j","s">>}
ApiUsageTarget == <<"s","r","c","/","a","p","p","/","a","p","i","s","/","c","o","d","e","b","a","s","e">>
CallScan == <<"b","r","a","i","n",".","s","c","a","n","_","c","o","d","e","b","a","s","e">>
CallHistory == <<"b","r","a","i","n",".","g","e","t","_","c","o","d","e","b","a","s","e","_","h","i","s","t","o","r","y">>

\* line 429
IsBrainImport(imp) == imp.path = StrBrain /\ imp.type = "external"

brain_import(file_node) ==
    \E i \in DOMAIN ImportsOf(file_node) : IsBrainImport(ImportsOf(file_node)[i])

\* lines 427-457: the api-usage links of one file
\* lines 438-454: the links for the text of a file that could be opened
CallSiteLinks(file_path, content) ==
    (IF Contains(content, CallScan)
     THEN <<CodebaseLink(file_path, ApiUsageTarget, "api-usage")>> ELSE <<>>)
    \o (IF Contains(content, CallHistory)
        THEN <<CodebaseLink(file_path, ApiUsageTarget, "api-usage")>> ELSE <<>>)

\* lines 433-457: open() and read(), an exception of which is swallowed
ReadLinks(file_path, entry) ==
    IF entry.kind = "file" /\ entry.readable
    THEN CallSiteLinks(file_path, entry.content) ELSE <<>>

\* ApiUsageLinks without the test of the file's extension
ApiUsageLinks_AnyExtension(fs, file_path, file_node) ==
    IF /\ ImportsOf(file_node) # <<>>
       /\ brain_import(file_node)
    THEN ReadLinks(file_path, FsEntry(fs, PathJoin(base_path, file_path)))
    ELSE <<>>

ApiUsageLinks(fs, file_path, file_node) ==
    IF /\ \E suffix \in FrontendSuffixes : EndsWith(file_path, suffix)
       /\ ImportsOf(file_node) # <<>>
       /\ brain_import(file_node)
    THEN ReadLinks(file_path, FsEntry(fs, PathJoin(base_path, file_path)))
    ELSE <<>>

\* lines 425-457: the second pass, over the map's items at positions lo..hi
RECURSIVE ApiUsagePass(_, _, _, _)
ApiUsagePass(fs, map, lo, hi) ==
    IF lo > hi THEN <<>>
    ELSE IF lo < hi
    THEN ApiUsagePass(fs, map, lo, Mid(lo, hi)) \o ApiUsagePass(fs, map, Mid(lo, hi) + 1, hi)
    ELSE ApiUsageLinks(fs, map[lo][1], map[lo][2])

\* lines 460-464
CodebaseResponse(structure, stats, links) ==
    [structure |-> structure, stats |-> stats, links |-> links]

\* line 467: response.dict()
ResponseDict(response) ==
    [structure |-> response.structure, stats |-> response.stats, links |-> response.links]

(***************************************************************************)
(* The state.  storage is the value db.storage.json holds under the key    *)
(* "codebase-snapshot-latest" (None while the key is absent).  scans holds *)
(* the local variables of each /scan request and where it stands in        *)
(* scan_codebase; a request sees one disk, chosen when it arrives.         *)
(* history is the response of the latest /history request.  puts is the    *)
(* log of the calls of db.storage.json.put that took effect, kept for the  *)
(* properties only.  call and ret are the arguments and the result of a    *)
(* direct call of extract_imports, scan_directory or calculate_stats.      *)
(***************************************************************************)
VARIABLES storage, scans, history, puts, call, ret

vars == <<storage, scans, history, puts, call, ret>>

IdleScan ==
    [pc |-> "idle", fs |-> None, structure |-> None, map |-> <<>>, stats |-> None,
     links |-> <<>>, response |-> None, status |-> 0]

\* lines 471-472: raise HTTPException(status_code=500, ...); the locals are gone
FailedScan == [IdleScan EXCEPT !.pc = "error", !.status = 500]

NoCall == [fn |-> "none"]

\* a /scan request arrives and sees the disk fs
ScanStart(id, fs) ==
    /\ scans[id].pc = "idle"
    /\ scans' = [scans EXCEPT ![id] = [@ EXCEPT !.pc = "walk", !.fs = Some(fs)]]
    /\ UNCHANGED <<storage, history, puts, call, ret>>

Walked(scan, built) ==
    [scan EXCEPT !.pc = "check", !.structure = Some(built.structure), !.map = built.map]

\* lines 299-394
ScanWalk(id) ==
    /\ scans[id].pc = "walk"
    /\ scans' = [scans EXCEPT ![id] = Walked(@, BuildStructure(scans[id].fs[1]))]
    /\ UNCHANGED <<storage, history, puts, call, ret>>

\* lines 396-397: the HTTPException raised here is caught at line 471 like any other
ScanCheck(id) ==
    /\ scans[id].pc = "check"
    /\ scans' = [scans EXCEPT ![id] =
                    IF StructureIsEmpty(scans[id].structure[1]) THEN FailedScan
                    ELSE [@ EXCEPT !.pc = "stats"]]
    /\ UNCHANGED <<storage, history, puts, call, ret>>

\* line 400
ScanStats(id) ==
    /\ scans[id].pc = "stats"
    /\ scans' = [scans EXCEPT ![id] =
                    [@ EXCEPT !.pc = "links",
                              !.stats = Some(calculate_stats(scans[id].structure[1]))]]
    /\ UNCHANGED <<storage, history, puts, call, ret>>

\* lines 403-421
ScanImportLinks(id) ==
    /\ scans[id].pc = "links"
    /\ scans' = [scans EXCEPT ![id] =
                    [@ EXCEPT !.pc = "api-usage",
                              !.links = ImportPass(scans[id].map, 1, Len(scans[id].map))]]
    /\ UNCHANGED <<storage, history, puts, call, ret>>

\* lines 425-457
ScanApiUsageLinks(id) ==
    /\ scans[id].pc = "api-usage"
    /\ scans' = [scans EXCEPT ![id] =
                    [@ EXCEPT !.pc = "response",
                              !.links = @ \o ApiUsagePass(scans[id].fs[1], scans[id].map,
                                                          1, Len(scans[id].map))]]
    /\ UNCHANGED <<storage, history, puts, call, ret>>

\* ScanResponse putting the snapshot as soon as the response is built
ScanResponse_PutsEarly(id) ==
    /\ scans[id].pc = "response"
    /\ scans' = [scans EXCEPT ![id] =
                    [@ EXCEPT !.pc = "put",
                              !.response = Some(CodebaseResponse(scans[id].structure[1],
                                                    scans[id].stats[1], scans[id].links))]]
    /\ storage' = Some(ResponseDict(scans'[id].response[1]))
    /\ puts' = Append(puts, [scan |-> id, data |-> storage'[1]])
    /\ UNCHANGED <<history, call, ret>>

\* lines 460-464
ScanResponse(id) ==
    /\ scans[id].pc = "response"
    /\ scans' = [scans EXCEPT ![id] =
                    [@ EXCEPT !.pc = "put",
                              !.response = Some(CodebaseResponse(scans[id].structure[1],
                                                    scans[id].stats[1], scans[id].links))]]
    /\ UNCHANGED <<storage, history, puts, call, ret>>

\* ScanPut merging the links of the snapshot the store holds into the new one
ScanPut_Merging(id) ==
    /\ scans[id].pc = "put"
    /\ storage' = Some(IF storage = None THEN ResponseDict(scans[id].response[1])
                       ELSE [ResponseDict(scans[id].response[1]) EXCEPT
                                !.links = storage[1].links \o @])
    /\ puts' = Append(puts, [scan |-> id, data |-> storage'[1]])
    /\ scans' = [scans EXCEPT ![id] = [@ EXCEPT !.pc = "done", !.status = 200]]
    /\ UNCHANGED <<history, call, ret>>

\* lines 467-470: the snapshot is put, and the response returned
ScanPut(id) ==
    /\ scans[id].pc = "put"
    /\ storage' = Some(ResponseDict(scans[id].response[1]))
    /\ puts' = Append(puts, [scan |-> id, data |-> storage'[1]])
    /\ scans' = [scans EXCEPT ![id] = [@ EXCEPT !.pc = "done", !.status = 200]]
    /\ UNCHANGED <<history, call, ret>>

RunningPcs == {"walk", "check", "stats", "links", "api-usage", "response", "put"}

\* lines 471-472: an exception raised anywhere in the try block (an OSError of the
\* walk, a validation error of a model, a failure of the store before it writes)
ScanFail(id) ==
    /\ scans[id].pc \in RunningPcs
    /\ scans' = [scans EXCEPT ![id] = FailedScan]
    /\ UNCHANGED <<storage, history, puts, call, ret>>

NoSnapshotMessage ==
    [message |-> <<"N","o"," ","c","o","d","e","b","a","s","e"," ","s","n","a","p","s","h","o","t"," ","a","v","a","i","l","a","b","l","e","."," ","P","l","e","a","s","e"," ","s","c","a","n"," ","f","i","r","s","t",".">>]

\* lines 479-483: the response for the value the store holds
HistoryResponse(snapshot) ==
    IF snapshot = None \/ DOMAIN snapshot[1] = {} THEN NoSnapshotMessage ELSE snapshot[1]

\* get_codebase_history; seen is the number of puts that preceded the read
GetCodebaseHistory ==
    /\ history' = Some([status |-> 200, body |-> HistoryResponse(storage), seen |-> Len(puts)])
    /\ UNCHANGED <<storage, scans, puts, call, ret>>

(***************************************************************************)
(* Disks                                                                   *)
(***************************************************************************)
\* the directory "/" holding /app with the category directories given (None: the
\* directory is absent; Some(entries): the directory with this listing)
CategoryDir(name, listing) ==
    IF listing = None THEN <<>> ELSE <<FsDir(name, listing[1], 1)>>

AppDisk(pages, components, utils, apis) ==
    FsDir(<<>>,
      <<FsDir(<<"a","p","p">>,
          <<FsDir(<<"u","i">>,
              <<FsDir(<<"s","r","c">>, CategoryDir(<<"p","a","g","e","s">>, pages)
                               \o CategoryDir(<<"c","o","m","p","o","n","e","n","t","s">>, components)
                               \o CategoryDir(<<"u","t","i","l","s">>, utils), 1)>>, 1),
            FsDir(<<"s","r","c">>,
              <<FsDir(<<"a","p","p">>, CategoryDir(<<"a","p","i","s">>, apis), 1)>>, 1)>>, 1)>>, 1)

BrainScanText == <<"i","m","p","o","r","t"," ","b","r","a","i","n"," ","f","r","o","m"," ","'","b","r","a","i","n","'",";","\n","i","m","p","o","r","t"," ","X"," ","f","r","o","m"," ","'",".","/","x","'","\n","b","r","a","i","n",".","s","c","a","n","_","c","o","d","e","b","a","s","e","(",")">>
TwiceText == <<"i","m","p","o","r","t"," ","A"," ","f","r","o","m"," ","'","l","i","b","'","\n","i","m","p","o","r","t"," ","A"," ","f","r","o","m"," ","'","l","i","b","'","\n","i","m","p","o","r","t"," ","R","e","a","c","t"," ","f","r","o","m"," ","'","r","e","a","c","t","'">>
HistoryText == <<"i","m","p","o","r","t"," ","b","r","a","i","n"," ","f","r","o","m"," ","\"","b","r","a","i","n","\"","\n","b","r","a","i","n",".","g","e","t","_","c","o","d","e","b","a","s","e","_","h","i","s","t","o","r","y","(",")">>
NoBrainText == <<"i","m","p","o","r","t"," ","'","u","t","i","l","s","/","x","'","\n","b","r","a","i","n",".","s","c","a","n","_","c","o","d","e","b","a","s","e","(",")">>
PyBrainText == <<"i","m","p","o","r","t"," ","b","r","a","i","n","\n","b","r","a","i","n",".","s","c","a","n","_","c","o","d","e","b","a","s","e","(",")">>
RequireText == <<"c","o","n","s","t"," ","b","r","a","i","n"," ","="," ","r","e","q","u","i","r","e","(","'","b","r","a","i","n","'",")","\n","b","r","a","i","n",".","s","c","a","n","_","c","o","d","e","b","a","s","e","(",")","\n","b","r","a","i","n",".","g","e","t","_","c","o","d","e","b","a","s","e","_","h","i","s","t","o","r","y","(",")">>
ApiText == <<"f","r","o","m"," ","f","a","s","t","a","p","i"," ","i","m","p","o","r","t"," ","A","P","I","R","o","u","t","e","r","\n","f","r","o","m"," ","a","p","p",".","a","p","i","s",".","t","a","s","k","s"," ","i","m","p","o","r","t"," ","x">>

\* what a pages directory may hold
PagesPool ==
    << FsFile(<<"A","p","p",".","t","s","x">>, BrainScanText, 1),
       FsFile(<<"T","w","i","c","e",".","t","s">>, TwiceText, 2),
       FsFile(<<"H","i","s","t",".","j","s","x">>, HistoryText, 1),
       FsFile(<<"N","o","B","r","a","i","n",".","j","s">>, NoBrainText, 1),
       FsFile(<<"t","o","o","l",".","p","y">>, PyBrainText, 1),
       FsFile(<<"U","p","p","e","r",".","T","S","X">>, BrainScanText, 1),
       FsDir(<<"n","o","d","e","_","m","o","d","u","l","e","s">>, <<FsFile(<<"d","e","p",".","j","s">>, BrainScanText, 1)>>, 1),
       FsDir(<<"s","u","b">>, <<FsFile(<<"D","e","e","p",".","t","s","x">>, RequireText, 1)>>, 3),
       FsUnreadable(FsFile(<<"L","o","c","k","e","d",".","t","s">>, BrainScanText, 1)),
       FsBroken(<<"g","o","n","e",".","t","s">>) >>

\* the listings of at most n distinct entries of a pool, in any order
Listings(pool, n) ==
    LET picks == UNION {[1..k -> DOMAIN pool] : k \in 0..n}
    IN  {[i \in DOMAIN pick |-> pool[pick[i]]] :
            pick \in {q \in picks : \A i, j \in DOMAIN q : i # j => q[i] # q[j]}}

\* the listings of at most n entries of a pool, in the pool's order
Selections(pool, n) ==
    {SelectSeq(pool, LAMBDA entry : \E i \in chosen : pool[i] = entry) :
        chosen \in {picked \in SUBSET DOMAIN pool : Cardinality(picked) <= n}}

MaxEntries == 2

ApisListings ==
    { None,
      Some(<<FsDir(<<"c","o","d","e","b","a","s","e">>, <<FsFile(<<"_","_","i","n","i","t","_","_",".","p","y">>, ApiText, 2)>>, 1)>>) }

\* the disks a /scan request of the single-scan specification may see
ScanDisks ==
    {AppDisk(Some(pages), None, None, apis) :
        pages \in Listings(PagesPool, MaxEntries), apis \in ApisListings}
    \cup {AppDisk(None, Some(<<FsFile(<<"B","u","t","t","o","n",".","t","s","x">>, TwiceText, 1)>>),
                  Some(<<FsFile(<<"c","n",".","t","s">>, <<>>, 1)>>), None)}

\* the disks the requests of the service specification may see
ServiceDisks ==
    { AppDisk(Some(<<PagesPool[1]>>), None, None, None),
      AppDisk(None, None, None,
              Some(<<FsDir(<<"c","o","d","e","b","a","s","e">>, <<FsFile(<<"_","_","i","n","i","t","_","_",".","p","y">>, ApiText, 2)>>, 1)>>)) }

(***************************************************************************)
(* Spec: the service, with concurrent /scan requests and /history requests *)
(***************************************************************************)
MaxScans == 2
ScanIds == 1..MaxScans

Init ==
    /\ storage = None
    /\ scans = [id \in ScanIds |-> IdleScan]
    /\ history = None
    /\ puts = <<>>
    /\ call = NoCall
    /\ ret = None

ScanStep(id) ==
    \/ ScanWalk(id)
    \/ ScanCheck(id)
    \/ ScanStats(id)
    \/ ScanImportLinks(id)
    \/ ScanApiUsageLinks(id)
    \/ ScanResponse(id)
    \/ ScanPut(id)

Next ==
    \/ \E id \in ScanIds : \E fs \in ServiceDisks : ScanStart(id, fs)
    \/ \E id \in ScanIds : ScanStep(id)
    \/ \E id \in ScanIds : ScanFail(id)
    \/ GetCodebaseHistory

Spec == Init /\ [][Next]_vars

(***************************************************************************)
(* SpecScan: one /scan request, on any of the disks of ScanDisks           *)
(***************************************************************************)
TheScan == CHOOSE id \in ScanIds : \A other \in ScanIds : id <= other

InitScan ==
    /\ storage = None
    /\ scans = [id \in {TheScan} |-> IdleScan]
    /\ history = None
    /\ puts = <<>>
    /\ call = NoCall
    /\ ret = None

NextScan ==
    \/ \E fs \in ScanDisks : ScanStart(TheScan, fs)
    \/ ScanStep(TheScan)

SpecScan == InitScan /\ [][NextScan]_vars

(***************************************************************************)
(* SpecExtract: extract_imports, called as scan_directory calls it         *)
(* (root_path = base_path), on the text of a file of a few lines           *)
(***************************************************************************)
\* import ... from '<import_path>'
JsImportLine(import_path) == <<"i","m","p","o","r","t"," ","X"," ","f","r","o","m"," ","'">> \o import_path \o <<"'">>

\* from <module> import <name>
PyFromLine(module, name) == <<"f","r","o","m"," ">> \o module \o <<" ","i","m","p","o","r","t"," ">> \o name

RelativeImportPaths ==
    { <<".","/","x">>, <<".",".","/","y">>, <<".",".","/",".",".","/","l","i","b","/","z">>, <<".",".">>,
      <<".",".","/",".",".","/",".",".","/",".",".","/","a","p","p","2","/","z">>, <<".",".","/",".",".","/",".",".","/",".",".","/","e","t","c","/","p","a","s","s","w","d">>, <<".",".","/",".",".","/",".",".","/","x">> }

PyFromModules ==
    { <<"a","p","p",".","a","p","i","s",".","c","o","d","e","b","a","s","e">>, <<"a","p","p",".","l","i","b","s",".","x">>, <<"f","a","s","t","a","p","i">>, <<"o","s",".","p","a","t","h">> }

ExtractLines ==
    {JsImportLine(import_path) : import_path \in RelativeImportPaths}
    \cup {PyFromLine(module, <<"s","c","a","n","_","c","o","d","e","b","a","s","e">>) : module \in PyFromModules}
    \cup { <<"i","m","p","o","r","t"," ","o","s">>, <<"i","m","p","o","r","t"," ","'","@","/","c","o","m","p","o","n","e","n","t","s","/","B","'">>, <<"c","o","n","s","t"," ","r"," ","="," ","r","e","q","u","i","r","e","(","\"","b","r","a","i","n","\"",")">> }

ExtractPaths ==
    { <<"u","i","/","s","r","c","/","p","a","g","e","s","/","A","p","p",".","t","s","x">>, <<"u","i","/","s","r","c","/","p","a","g","e","s","/","d","e","e","p","/","V","i","e","w",".","j","s","x">>, <<"a",".","p","y">>, <<"R","E","A","D","M","E",".","m","d">> }

MaxLines == 2

\* the texts of at most MaxLines lines
ExtractContents ==
    {JoinWith(lines, "\n") : lines \in UNION {[1..n -> ExtractLines] : n \in 0..MaxLines}}

InitExtract ==
    /\ storage = None
    /\ scans = [id \in {TheScan} |-> IdleScan]
    /\ history = None
    /\ puts = <<>>
    /\ \E file_path \in ExtractPaths, content \in ExtractContents :
          call = [fn |-> "extract_imports", file_path |-> file_path,
                  content |-> content, root_path |-> base_path]
    /\ ret = None

CallExtractImports ==
    /\ call.fn = "extract_imports"
    /\ ret = None
    /\ ret' = Some(extract_imports(call.file_path, call.content, call.root_path))
    /\ UNCHANGED <<storage, scans, history, puts, call>>

NextExtract == CallExtractImports

SpecExtract == InitExtract /\ [][NextExtract]_vars

(***************************************************************************)
(* SpecWalk: scan_directory, called on a path of a disk with a max_depth   *)
(* and a file map                                                          *)
(***************************************************************************)
BigDirLen == 150

\* the three digits of i
Digits3(i) ==
    <<DigitChars[(i \div 100) + 1], DigitChars[((i \div 10) % 10) + 1],
      DigitChars[(i % 10) + 1]>>

\* /app/ui/src/pages with BigDirLen files f001.txt, f002.txt, ...; the positions in
\* `broken` hold dangling links instead
BigListing(broken) ==
    [i \in 1..BigDirLen |->
        IF i \in broken THEN FsBroken(<<"l">> \o Digits3(i))
        ELSE FsFile(<<"f">> \o Digits3(i) \o <<".","t","x","t">>, <<"x">>, 1)]

\* pages/a/b/c/d/node_modules/dep.js: the walk from pages reaches node_modules with
\* max_depth 0
DeepListing ==
    <<FsDir(<<"a">>, <<FsDir(<<"b">>, <<FsDir(<<"c">>, <<FsDir(<<"d">>,
        <<FsDir(<<"n","o","d","e","_","m","o","d","u","l","e","s">>, <<FsFile(<<"d","e","p",".","j","s">>, BrainScanText, 1)>>, 1),
          FsFile(<<"e",".","t","s">>, TwiceText, 1)>>, 1)>>, 1)>>, 1)>>, 1)>>

WalkDisks ==
    {AppDisk(Some(pages), None, None, None) : pages \in Selections(PagesPool, MaxEntries)}
    \cup { AppDisk(Some(BigListing({})), None, None, None),
           AppDisk(Some(BigListing({2, 50})), None, None, None),
           AppDisk(Some(DeepListing), None, None, None),
           AppDisk(Some(<<FsUnreadable(FsDir(<<"s","u","b">>, <<PagesPool[1]>>, 1)),
                          FsFile(<<"b","u","i","l","d">>, <<"x">>, 1)>>), None, None,
                   Some(<<FsDir(<<"c","o","d","e","b","a","s","e">>, <<FsFile(<<"_","_","i","n","i","t","_","_",".","p","y">>, ApiText, 2)>>, 1)>>)) }

WalkPaths ==
    { <<>>, <<"u","i","/","s","r","c","/","p","a","g","e","s">>, <<"u","i","/","s","r","c","/","p","a","g","e","s","/","n","o","d","e","_","m","o","d","u","l","e","s">>, <<"u","i","/","s","r","c","/","p","a","g","e","s","/","s","u","b">>,
      <<"u","i","/","s","r","c","/","p","a","g","e","s","/","A","p","p",".","t","s","x">>, <<"u","i","/","s","r","c","/","p","a","g","e","s","/","b","u","i","l","d">>, <<"u","i","/","s","r","c","/","p","a","g","e","s","/","g","o","n","e",".","t","s">>,
      <<"u","i","/","s","r","c","/","p","a","g","e","s","/","a","/","b","/","c","/","d","/","n","o","d","e","_","m","o","d","u","l","e","s">>, <<"u","i","/","s","r","c","/","p","a","g","e","s","/","a">>, <<"s","r","c","/","a","p","p","/","a","p","i","s">>,
      <<"u","i","/","s","r","c","/","p","a","g","e","s","/","n","o","d","e","_","m","o","d","u","l","e","s","/","d","e","p",".","j","s">> }

MaxWalkDepth == 3
WalkDepths == (-1)..MaxWalkDepth \cup {default_max_depth}

\* a file map that already holds a file
WalkMaps ==
    { <<>>,
      <<<<<<"o","l","d",".","t","s">>, FileNode(<<"o","l","d",".","t","s">>, <<"o","l","d",".","t","s">>, "file", 1, Some(1), None,
                              Some(<<>>), Some(<<"T","y","p","e","S","c","r","i","p","t">>))>>>> }

InitWalk ==
    /\ storage = None
    /\ scans = [id \in {TheScan} |-> IdleScan]
    /\ history = None
    /\ puts = <<>>
    /\ \E fs \in WalkDisks, current_path \in WalkPaths, max_depth \in WalkDepths,
          all_files_map \in WalkMaps :
          call = [fn |-> "scan_directory", fs |-> fs, current_path |-> current_path,
                  max_depth |-> max_depth, all_files_map |-> all_files_map]
    /\ ret = None

CallScanDirectory ==
    /\ call.fn = "scan_directory"
    /\ ret = None
    /\ ret' = Some(scan_directory(call.fs, base_path, call.current_path, call.max_depth,
                                  call.all_files_map))
    /\ UNCHANGED <<storage, scans, history, puts, call>>

NextWalk == CallScanDirectory

SpecWalk == InitWalk /\ [][NextWalk]_vars

(***************************************************************************)
(* SpecStats: calculate_stats, called on a node tree and on the same tree  *)
(* with its children in another order                                      *)
(***************************************************************************)
StatsPool ==
    << FsFile(<<"R","E","A","D","M","E">>, <<"a", "b", "c">>, 1),
       FsFile(<<".","e","n","v">>, <<"k">>, 1),
       FsFile(<<"a",".","t","a","r",".","g","z">>, <<"z", "z">>, 1),
       FsFile(<<"U","p","p","e","r",".","T","S","X">>, <<"a", "b", "c", "d">>, 1),
       FsFile(<<"t","o","o","l",".","p","y">>, <<"p", "y">>, 1),
       FsDir(<<"s","u","b">>, <<FsFile(<<"D","e","e","p",".","t","s","x">>, <<"r", "e", "q", "u", "i">>, 1), FsFile(<<"M","a","k","e","f","i","l","e">>, <<"m">>, 1),
                       FsDir(<<"l","i","b">>, <<FsFile(<<"x",".","t","s">>, <<>>, 1)>>, 1)>>, 3),
       FsDir(<<"d","i","s","t">>, <<FsFile(<<"o","u","t",".","j","s">>, <<"a", "b", "c", "d">>, 1)>>, 1) >>

StatsTrees ==
    {BuildStructure(AppDisk(Some(pages), None, None, Some(<<FsDir(<<"c","o","d","e","b","a","s","e">>, <<FsFile(<<"_","_","i","n","i","t","_","_",".","p","y">>, ApiText, 2)>>, 1)>>))).structure :
        pages \in Selections(StatsPool, MaxEntries)}
    \cup {scan_directory(AppDisk(Some(pages), None, None, None), base_path,
                         <<"u","i","/","s","r","c","/","p","a","g","e","s">>, default_max_depth, <<>>).node[1] :
            pages \in {BigListing({}), DeepListing}}
    \cup {scan_directory(AppDisk(Some(<<StatsPool[i]>>), None, None, None), base_path,
                         <<"u","i","/","s","r","c","/","p","a","g","e","s","/">> \o StatsPool[i].name, default_max_depth, <<>>).node[1] :
            i \in 1..3}

Orders == {"reverse", "rotate", "reverse-root"}

Reverse(s) == [i \in 1..Len(s) |-> s[Len(s) + 1 - i]]
Rotate(s) == IF s = <<>> THEN s ELSE Tail(s) \o <<Head(s)>>

\* the tree `node` with the children reordered: all lists reversed, all lists
\* rotated by one, or the root's list reversed
RECURSIVE Reordered(_, _)
Reordered(node, order) ==
    IF node.children = None THEN node
    ELSE [node EXCEPT !.children =
            Some(IF order = "reverse-root" THEN Reverse(node.children[1])
                 ELSE IF order = "reverse"
                 THEN Reverse([i \in DOMAIN node.children[1] |->
                                  Reordered(node.children[1][i], order)])
                 ELSE Rotate([i \in DOMAIN node.children[1] |->
                                  Reordered(node.children[1][i], order)]))]

InitStats ==
    /\ storage = None
    /\ scans = [id \in {TheScan} |-> IdleScan]
    /\ history = None
    /\ puts = <<>>
    /\ \E structure \in StatsTrees, order \in Orders :
          call = [fn |-> "calculate_stats", structure |-> structure,
                  reordered |-> Reordered(structure, order)]
    /\ ret = None

CallCalculateStats ==
    /\ call.fn = "calculate_stats"
    /\ ret = None
    /\ ret' = Some([stats |-> calculate_stats(call.structure),
                    reordered |-> calculate_stats(call.reordered)])
    /\ UNCHANGED <<storage, scans, history, puts, call>>

NextStats == CallCalculateStats

SpecStats == InitStats /\ [][NextStats]_vars

(***************************************************************************)
(* The service: /history and the snapshot                                  *)
(***************************************************************************)
\* the complete response of the scan request id
ScanOutcome(id) ==
    [structure |-> scans[id].structure[1], stats |-> scans[id].stats[1],
     links |-> scans[id].links]

\* C1: across the interleavings of /scan and /history requests, /history answers
\* 200 with the "no snapshot" message when no scan has written the key yet, and
\* otherwise with exactly the complete response (structure, stats, links) of the
\* scan whose write was the latest before the read; every write stores the whole
\* response of one scan, and the store holds the latest write.
C1_HistoryReturnsLatestWrite ==
    /\ history # None =>
          /\ history[1].status = 200
          /\ history[1].seen = 0 => history[1].body = NoSnapshotMessage
          /\ history[1].seen > 0 => history[1].body = puts[history[1].seen].data
    /\ \A i \in DOMAIN puts : puts[i].data = ScanOutcome(puts[i].scan)
    /\ storage = IF puts = <<>> THEN None ELSE Some(puts[Len(puts)].data)

\* /history has answered after two scans with different results wrote the key
C1_Witness ==
    /\ history # None
    /\ history[1].seen = 2
    /\ puts[1].data # puts[2].data
    /\ puts[1].data.links # <<>>
    /\ history[1].body = ScanOutcome(puts[2].scan)

\* C2: a scan that fails ends with status 500 and its failing step leaves the
\* snapshot as it is; the snapshot changes only in the last step of a scan, which
\* stores the response that scan has built and ends the scan with status 200.
C2_FailedScanLeavesSnapshot ==
    [][/\ \A id \in DOMAIN scans :
             scans[id].pc # "error" /\ scans'[id].pc = "error" =>
                 /\ storage' = storage
                 /\ scans'[id].status = 500
                 /\ \A i \in DOMAIN puts : puts[i].scan # id
       /\ storage' # storage =>
             \E id \in DOMAIN scans :
                 /\ scans[id].pc = "put"
                 /\ scans'[id].pc = "done"
                 /\ scans'[id].status = 200
                 /\ storage' = Some(ResponseDict(scans[id].response[1]))]_vars

\* a scan has failed with its response built, after another scan's write, and the
\* store still holds that write
C2_Witness ==
    \E id \in DOMAIN scans :
        /\ scans[id].pc = "error"
        /\ scans[id].status = 500
        /\ Len(puts) = 1
        /\ puts[1].scan # id
        /\ storage = Some(puts[1].data)

(***************************************************************************)
(* One scan: the structure and the links                                   *)
(***************************************************************************)
SumSizes(nodes) ==
    LET sum[n \in 0..Len(nodes)] == IF n = 0 THEN 0 ELSE sum[n - 1] + nodes[n].size
    IN  sum[Len(nodes)]

ChildrenOf(node) == IF node.children = None THEN <<>> ELSE node.children[1]

RECURSIVE SizesAddUp(_)
SizesAddUp(node) ==
    /\ node.type = "directory" => node.size = SumSizes(ChildrenOf(node))
    /\ \A i \in DOMAIN ChildrenOf(node) : SizesAddUp(ChildrenOf(node)[i])

\* C4: in the structure a scan returns, the size of every directory node (the
\* root, the category nodes, Media and Storage included, and the directories
\* scan_directory produced) is the sum of the sizes of its immediate children.
C4_DirectorySizeIsSumOfChildren ==
    \A id \in DOMAIN scans :
        scans[id].pc = "done" => SizesAddUp(scans[id].response[1].structure)

\* the text of the file at file_path of the disk the scan id sees
TextOf(id, file_path) == FsEntry(scans[id].fs[1], PathJoin(base_path, file_path)).content

IsFrontendPath(file_path) ==
    \E suffix \in { <<".","t","s","x">>, <<".","t","s">>, <<".","j","s","x">>, <<".","j","s">> } : EndsWith(file_path, suffix)

ImportsBrain(file_node) ==
    \E j \in DOMAIN ImportsOf(file_node) :
        ImportsOf(file_node)[j] = [path |-> <<"b","r","a","i","n">>, type |-> "external"]

ApiUsageEdge(file_path) ==
    [source |-> file_path, target |-> <<"s","r","c","/","a","p","p","/","a","p","i","s","/","c","o","d","e","b","a","s","e">>, type |-> "api-usage"]

Occurs(link, links) == \E k \in DOMAIN links : links[k] = link

\* C8: a scanned file with a frontend extension that imports the external `brain`
\* and whose text contains `brain.scan_codebase` has an api-usage edge to the
\* codebase API among the links of the scan, besides the edges of its imports that
\* are not external; no api-usage edge starts at a file without that import or
\* without a frontend extension.
C8_BrainCallYieldsApiUsageEdge ==
    \A id \in DOMAIN scans :
        scans[id].pc = "done" =>
            /\ \A i \in DOMAIN scans[id].map :
                  /\ IsFrontendPath(scans[id].map[i][1])
                  /\ ImportsBrain(scans[id].map[i][2])
                  /\ Contains(TextOf(id, scans[id].map[i][1]), <<"b","r","a","i","n",".","s","c","a","n","_","c","o","d","e","b","a","s","e">>)
                  => /\ Occurs(ApiUsageEdge(scans[id].map[i][1]), scans[id].response[1].links)
                     /\ \A j \in DOMAIN ImportsOf(scans[id].map[i][2]) :
                           ImportsOf(scans[id].map[i][2])[j].type # "external" =>
                               Occurs([source |-> scans[id].map[i][1],
                                       target |-> ImportsOf(scans[id].map[i][2])[j].path,
                                       type |-> ImportsOf(scans[id].map[i][2])[j].type],
                                      scans[id].response[1].links)
            /\ \A k \in DOMAIN scans[id].response[1].links :
                  scans[id].response[1].links[k].type = "api-usage" =>
                      \E i \in DOMAIN scans[id].map :
                          /\ scans[id].map[i][1] = scans[id].response[1].links[k].source
                          /\ IsFrontendPath(scans[id].map[i][1])
                          /\ ImportsBrain(scans[id].map[i][2])

\* a finished scan of a disk with ui/src/pages/App.tsx (brain imported and called,
\* ./x imported) and ui/src/pages/Upper.TSX (the same text), with both edges of App.tsx
C8_Witness ==
    \E id \in DOMAIN scans :
        /\ scans[id].pc = "done"
        /\ <<"u","i","/","s","r","c","/","p","a","g","e","s","/","U","p","p","e","r",".","T","S","X">> \in DictKeys(scans[id].map)
        /\ Occurs(ApiUsageEdge(<<"u","i","/","s","r","c","/","p","a","g","e","s","/","A","p","p",".","t","s","x">>), scans[id].response[1].links)
        /\ Occurs([source |-> <<"u","i","/","s","r","c","/","p","a","g","e","s","/","A","p","p",".","t","s","x">>, target |-> <<"/","u","i","/","s","r","c","/","p","a","g","e","s","/","x">>,
                   type |-> "module"], scans[id].response[1].links)

\* the number of positions of seq that hold v
Occurrences(v, seq) == Cardinality({k \in DOMAIN seq : seq[k] = v})

\* C9: after the first pass the links hold one edge (file path, import path, import
\* kind) per occurrence of an import that is not external, for every file of the
\* map, and nothing else: no external edge, two edges for an import that occurs
\* twice, targets unchecked, every source a key of the map.
C9_FirstPassOneEdgePerImport ==
    \A id \in DOMAIN scans :
        scans[id].pc = "api-usage" =>
            /\ \A k \in DOMAIN scans[id].links :
                  /\ scans[id].links[k].type # "external"
                  /\ scans[id].links[k].source \in DictKeys(scans[id].map)
            /\ \A i \in DOMAIN scans[id].map :
                  /\ \A j \in DOMAIN ImportsOf(scans[id].map[i][2]) :
                        ImportsOf(scans[id].map[i][2])[j].type # "external" =>
                            Occurrences([source |-> scans[id].map[i][1],
                                         target |-> ImportsOf(scans[id].map[i][2])[j].path,
                                         type |-> ImportsOf(scans[id].map[i][2])[j].type],
                                        scans[id].links)
                            = Occurrences(ImportsOf(scans[id].map[i][2])[j],
                                          ImportsOf(scans[id].map[i][2]))
                  /\ \A k \in DOMAIN scans[id].links :
                        scans[id].links[k].source = scans[id].map[i][1] =>
                            Occurs([path |-> scans[id].links[k].target,
                                    type |-> scans[id].links[k].type],
                                   ImportsOf(scans[id].map[i][2]))

\* the first pass has run over a file that imports `lib` twice and the external
\* `react` once: two equal edges to `lib`, which is no file of the map
C9_Witness ==
    \E id \in DOMAIN scans :
        /\ scans[id].pc = "api-usage"
        /\ \E i \in DOMAIN scans[id].map :
              /\ Occurs([path |-> <<"r","e","a","c","t">>, type |-> "external"], ImportsOf(scans[id].map[i][2]))
              /\ \E k \in DOMAIN scans[id].links :
                    /\ scans[id].links[k].source = scans[id].map[i][1]
                    /\ scans[id].links[k].target = <<"l","i","b">>
                    /\ scans[id].links[k].target \notin DictKeys(scans[id].map)
                    /\ Occurrences(scans[id].links[k], scans[id].links) = 2

(***************************************************************************)
(* extract_imports                                                         *)
(***************************************************************************)
Extracted == call.fn = "extract_imports" /\ ret # None

\* C3: for a Python file, the text `from app.apis.codebase import scan_codebase`
\* yields one ImportInfo, of kind `from` and path /src/app/apis/codebase, and a
\* text of n `from <module> import <name>` statements yields n ImportInfos.
C3_FromImportYieldsOneImportInfo ==
    Extracted /\ EndsWith(call.file_path, <<".","p","y">>) =>
        /\ call.content = PyFromLine(<<"a","p","p",".","a","p","i","s",".","c","o","d","e","b","a","s","e">>, <<"s","c","a","n","_","c","o","d","e","b","a","s","e">>) =>
              ret[1] = <<[path |-> <<"/","s","r","c","/","a","p","p","/","a","p","i","s","/","c","o","d","e","b","a","s","e">>, type |-> "from"]>>
        /\ (/\ call.content # <<>>
            /\ \A i \in DOMAIN Split(call.content, "\n") :
                  \E module \in PyFromModules :
                      Split(call.content, "\n")[i] = PyFromLine(module, <<"s","c","a","n","_","c","o","d","e","b","a","s","e">>))
           => Len(ret[1]) = Len(Split(call.content, "\n"))

\* the location an import path names, resolved against the directory of the file
\* under the root
ResolvedImport(root_path, file_path, import_path) ==
    Normpath(PathJoin(PathJoin(root_path, Dirname(file_path)), import_path))

InsideRoot(root_path, location) ==
    location = root_path \/ StartsWith(location, root_path \o <<"/">>)

ExpectedImportPath(root_path, file_path, import_path) ==
    IF InsideRoot(root_path, ResolvedImport(root_path, file_path, import_path))
    THEN From(ResolvedImport(root_path, file_path, import_path), Len(root_path))
    ELSE import_path

\* C10: for a JS/TS file, an import path with a leading `.` is resolved against the
\* directory of the file under the scan root; the ImportInfo path is the resolved
\* location relative to the root when it lies inside the root, and the raw import
\* string when it lies outside (a sibling directory whose name starts with the
\* root's name included).
C10_RelativeImportResolvedUnderRoot ==
    Extracted =>
        \A import_path \in RelativeImportPaths :
            /\ get_file_extension(call.file_path) \in { <<"t","s","x">>, <<"t","s">>, <<"j","s","x">>, <<"j","s">> }
            /\ call.content = JsImportLine(import_path)
            => /\ ret[1] # <<>>
               /\ \A k \in DOMAIN ret[1] :
                     ret[1][k].path =
                         ExpectedImportPath(call.root_path, call.file_path, import_path)

(***************************************************************************)
(* calculate_stats                                                         *)
(***************************************************************************)
\* what a node counts for: 1 as a node, 1 as a file, its size as a file, or 1 as a
\* file with an extension of exts
Weight(node, what) ==
    IF what.of = "nodes" THEN 1
    ELSE IF node.type # "file" THEN 0
    ELSE IF what.of = "files" THEN 1
    ELSE IF what.of = "bytes" THEN node.size
    ELSE IF get_file_extension(node.path) \in what.exts THEN 1 ELSE 0

\* the sum of Weight(n, what) over node and the nodes below it
RECURSIVE Total(_, _)
Total(node, what) ==
    LET sum[n \in 0..Len(ChildrenOf(node))] ==
            IF n = 0 THEN Weight(node, what)
            ELSE sum[n - 1] + Total(ChildrenOf(node)[n], what)
    IN  sum[Len(ChildrenOf(node))]

DictAsSet(map) == {map[i] : i \in DOMAIN map}

Counted == call.fn = "calculate_stats" /\ ret # None

\* the keys of file_types are distinct, and each counts the files of the tree with
\* that extension, `no_extension` those without one
FileTypesCount(stats, structure) ==
    /\ \A i, j \in DOMAIN stats.file_types :
          stats.file_types[i][1] = stats.file_types[j][1] => i = j
    /\ \A i \in DOMAIN stats.file_types :
          /\ stats.file_types[i][2] > 0
          /\ stats.file_types[i][2] =
                Total(structure,
                      [of |-> "extension",
                       exts |-> IF stats.file_types[i][1] = <<"n","o","_","e","x","t","e","n","s","i","o","n">>
                                THEN {<<>>, <<"n","o","_","e","x","t","e","n","s","i","o","n">>} ELSE {stats.file_types[i][1]}])
    /\ Total(structure, [of |-> "extension", exts |-> {<<>>}]) > 0 =>
          \E i \in DOMAIN stats.file_types : stats.file_types[i][1] = <<"n","o","_","e","x","t","e","n","s","i","o","n">>
    /\ SumSizes([i \in DOMAIN stats.file_types |-> [size |-> stats.file_types[i][2]]])
          = stats.total_files

\* C5: calculate_stats returns total_files + total_directories equal to the
\* number of nodes of the tree, total_size_bytes equal to the sum of the sizes of
\* the file nodes, and file_types counts that sum to total_files, with the files
\* lacking an extension under `no_extension`; the tree with its children in
\* another order gives the same totals and the same counts.
C5_StatsCountEveryNode ==
    Counted =>
        /\ ret[1].stats.total_files + ret[1].stats.total_directories
              = Total(call.structure, [of |-> "nodes"])
        /\ ret[1].stats.total_files
              = Total(call.structure, [of |-> "files"])
        /\ ret[1].stats.total_size_bytes = Total(call.structure, [of |-> "bytes"])
        /\ FileTypesCount(ret[1].stats, call.structure)
        /\ ret[1].reordered.total_files = ret[1].stats.total_files
        /\ ret[1].reordered.total_directories = ret[1].stats.total_directories
        /\ ret[1].reordered.total_size_bytes = ret[1].stats.total_size_bytes
        /\ DictAsSet(ret[1].reordered.file_types) = DictAsSet(ret[1].stats.file_types)

\* the stats of a tree with two files without extension, whose other order of
\* children fills file_types in another order
C5_Witness ==
    /\ Counted
    /\ <<<<"n","o","_","e","x","t","e","n","s","i","o","n">>, 2>> \in DictAsSet(ret[1].stats.file_types)
    /\ ret[1].stats.total_directories >= 7
    /\ ret[1].reordered.file_types # ret[1].stats.file_types

(***************************************************************************)
(* scan_directory                                                          *)
(***************************************************************************)
Scanned == call.fn = "scan_directory" /\ ret # None

ExclusionList ==
    { <<".","g","i","t">>, <<"n","o","d","e","_","m","o","d","u","l","e","s">>, <<"_","_","p","y","c","a","c","h","e","_","_">>, <<"v","e","n","v">>, <<".","v","e","n","v">>, <<"d","i","s","t">>,
      <<"b","u","i","l","d">>, <<".","n","e","x","t">>, <<".","i","d","e","a">> }

\* the entry the call is about
CalledEntry == FsEntry(call.fs, PathJoin(base_path, call.current_path))

CalledOnExcluded ==
    /\ Scanned
    /\ CalledEntry.kind # "broken"
    /\ Basename(call.current_path) \in ExclusionList

EmptyPlaceholder(node) ==
    /\ node # None
    /\ node[1].type = "directory"
    /\ node[1].size = 0
    /\ node[1].children = Some(<<>>)

\* C6 as stated: a call on an existing entry whose basename is in the exclusion
\* list returns a directory node of size 0 without children and leaves the file
\* map as it was, whatever the entry contains and whatever the remaining depth.
C6_ExcludedAlwaysPlaceholder ==
    CalledOnExcluded => EmptyPlaceholder(ret[1].node) /\ ret[1].map = call.all_files_map

\* every node of the tree with an excluded name is an empty directory of size 0
RECURSIVE ExcludedAreEmpty(_)
ExcludedAreEmpty(node) ==
    /\ node.name \in ExclusionList => EmptyPlaceholder(Some(node))
    /\ \A i \in DOMAIN ChildrenOf(node) : ExcludedAreEmpty(ChildrenOf(node)[i])

\* the names of the path key below the path of the call
NamesBelow(key) == Split(From(key, Len(call.current_path)), "/")

\* C6, amended: with max_depth >= 1, a call on an existing entry whose basename is
\* in the exclusion list returns a directory node of size 0 without children and
\* leaves the file map as it was, whatever the entry contains; in the tree of any
\* call every node with such a name is such a node, and no file below an entry
\* with such a name is registered in the file map.
C6_ExcludedPlaceholderWithinDepth ==
    /\ CalledOnExcluded /\ call.max_depth >= 1 =>
          EmptyPlaceholder(ret[1].node) /\ ret[1].map = call.all_files_map
    /\ Scanned /\ ret[1].node # None => ExcludedAreEmpty(ret[1].node[1])
    /\ Scanned =>
          \A key \in DictKeys(ret[1].map) \ DictKeys(call.all_files_map) :
              \A n \in DOMAIN NamesBelow(key) : NamesBelow(key)[n] \notin ExclusionList

\* scan_directory was called with max_depth 2 on a node_modules that holds a file
C6_Witness ==
    /\ CalledOnExcluded
    /\ call.max_depth = 2
    /\ CalledEntry.entries # <<>>
    /\ EmptyPlaceholder(ret[1].node)

\* the call is on a directory that is not excluded and that can be listed
CalledOnDirectory ==
    /\ Scanned
    /\ call.max_depth >= 1
    /\ CalledEntry.kind = "dir"
    /\ CalledEntry.readable
    /\ Basename(call.current_path) \notin ExclusionList

\* the paths of the nodes of the entries
PathsOf(entries) == [i \in DOMAIN entries |-> PathJoin(call.current_path, entries[i].name)]
ChildPaths(node) == [i \in DOMAIN ChildrenOf(node) |-> ChildrenOf(node)[i].path]

\* the entries among the first 100 of the listing that exist
FirstHundredExisting ==
    SelectSeq(SubSeq(CalledEntry.entries, 1, Min({100, Len(CalledEntry.entries)})),
              LAMBDA entry : entry.kind # "broken")

\* C7 as stated: the node of a directory whose listing has more than 100 entries
\* has exactly 100 children, the first 100 entries of the listing in listing
\* order; a directory with at most 100 entries is not truncated.
C7_ExactlyHundredChildren ==
    CalledOnDirectory =>
        /\ ret[1].node # None
        /\ Len(CalledEntry.entries) > 100 =>
              /\ Len(ChildrenOf(ret[1].node[1])) = 100
              /\ ChildPaths(ret[1].node[1]) = PathsOf(SubSeq(CalledEntry.entries, 1, 100))
        /\ Len(CalledEntry.entries) <= 100 /\ call.max_depth >= 2 =>
              ChildPaths(ret[1].node[1]) = PathsOf(FirstHundredExisting)

\* C7, amended: called with max_depth >= 2 on a directory, scan_directory returns
\* a node whose children are the nodes of those of the first 100 entries of the
\* listing that exist, in listing order (all of the entries that exist when the
\* listing has at most 100): exactly 100 children when the listing has more than
\* 100 entries and the first 100 exist; called with max_depth 1 it returns a node
\* without children.
C7_FirstHundredExistingChildren ==
    CalledOnDirectory =>
        /\ ret[1].node # None
        /\ call.max_depth = 1 => ChildrenOf(ret[1].node[1]) = <<>>
        /\ call.max_depth >= 2 =>
              /\ ChildPaths(ret[1].node[1]) = PathsOf(FirstHundredExisting)
              /\ (/\ Len(CalledEntry.entries) > 100
                  /\ \A i \in 1..100 : CalledEntry.entries[i].kind # "broken")
                 => Len(ChildrenOf(ret[1].node[1])) = 100

\* the node of a directory of more than 100 entries that all exist: 100 children,
\* the last of them the 100th entry
C7_Witness ==
    /\ CalledOnDirectory
    /\ call.max_depth >= 2
    /\ Len(CalledEntry.entries) > 100
    /\ \A i \in 1..100 : CalledEntry.entries[i].kind # "broken"
    /\ Len(ChildrenOf(ret[1].node[1])) = 100
    /\ ChildrenOf(ret[1].node[1])[100].name = CalledEntry.entries[100].name

\* the number of levels of the tree, the root's included
RECURSIVE Levels(_)
Levels(node) ==
    1 + Max({0} \cup {Levels(ChildrenOf(node)[i]) : i \in DOMAIN ChildrenOf(node)})

\* the level of the file registered under key in the walk of the call: 1 for the
\* path of the call itself
LevelOf(key) == 1 + Cardinality({n \in DOMAIN NamesBelow(key) : NamesBelow(key)[n] # <<>>})

Registered == DictKeys(ret[1].map) \ DictKeys(call.all_files_map)

WithinDepth ==
    Scanned =>
        /\ call.max_depth <= 0 \/ CalledEntry.kind = "broken" =>
              ret[1].node = None /\ ret[1].map = call.all_files_map
        /\ ret[1].node # None => Levels(ret[1].node[1]) <= call.max_depth
        /\ \A key \in Registered : LevelOf(key) <= call.max_depth
        /\ \A i \in DOMAIN call.all_files_map :
              call.all_files_map[i][1] \notin Registered =>
                  call.all_files_map[i] \in DictAsSet(ret[1].map)

\* the number of entries of the disk at and below entry, down to the given level
RECURSIVE EntriesWithin(_, _)
RECURSIVE EntriesAmong(_, _, _, _)
EntriesAmong(entries, levels, lo, hi) ==
    IF lo > hi THEN 0
    ELSE IF lo < hi
    THEN EntriesAmong(entries, levels, lo, (lo + hi) \div 2)
         + EntriesAmong(entries, levels, (lo + hi) \div 2 + 1, hi)
    ELSE EntriesWithin(entries[lo], levels)

EntriesWithin(entry, levels) ==
    IF levels <= 0 THEN 0
    ELSE 1 + EntriesAmong(entry.entries, levels - 1, 1, Len(entry.entries))

\* C11: a call of scan_directory on a finite directory tree ends after finitely
\* many invocations, at most one per entry of the tree down to level max_depth + 1;
\* a call with max_depth <= 0 or on a path that does not exist returns nothing and
\* leaves the file map as it was; a call with max_depth d returns a tree of at most
\* d levels, the root's included, and registers no file below level d.
C11_WalkTerminatesWithinDepth ==
    /\ WithinDepth
    /\ Scanned =>
          Invocations(call.fs, base_path, call.current_path, call.max_depth)
              <= EntriesWithin(CalledEntry, Max({call.max_depth, 0}) + 1)

\* a call with max_depth 3 on pages, which holds files at levels 5 and 6, has
\* returned a tree of 3 levels and registered nothing
C11_Witness ==
    /\ Scanned
    /\ call.max_depth = 3
    /\ call.current_path = <<"u","i","/","s","r","c","/","p","a","g","e","s">>
    /\ CalledEntry.entries = DeepListing
    /\ Levels(ret[1].node[1]) = 3
    /\ Registered = {}
    /\ Invocations(call.fs, base_path, call.current_path, call.max_depth) = 4
====
